---- MODULE Spec2Model ----
(***************************************************************************)
(* The persisted data model of app/models.py as a state machine: every     *)
(* table is a sequence of rows (a row's id is its position, the surrogate  *)
(* key the database assigns), every create operation validates its input   *)
(* against the constraints the class declares with Field(...) and its      *)
(* annotations, and then inserts under the column constraints (unique,     *)
(* foreign_key).  Rows are never deleted.                                  *)
(*                                                                         *)
(* A string is modelled by one character and its length (the string c^n);  *)
(* only its identity and its length matter to the schema.  Python's None   *)
(* is the record None for strings and requests and 0 for an optional id.   *)
(***************************************************************************)
EXTENDS Integers, Sequences, FiniteSets, TLC

VARIABLES users, student_profiles, teacher_profiles, pending,
          historical_periods, vocabulary_terms, vocabulary_visuals,
          term_connections,
          quiz_levels, quiz_questions, quiz_attempts, student_answers, badges,
          historical_figures, timeline_events, hero_diary_progress,
          ar_triggers, ar_models, ar_experiences, ar_sessions,
          lesson_plans, activity_sheets,
          codec, response

userVars == <<users, student_profiles, teacher_profiles, pending>>
vocabVars == <<vocabulary_terms, vocabulary_visuals, term_connections>>
quizVars ==
    <<historical_periods, quiz_levels, quiz_questions, quiz_attempts,
      student_answers, badges>>

diaryVars == <<historical_figures, timeline_events, hero_diary_progress>>

arVars == <<ar_triggers, ar_models, ar_experiences, ar_sessions>>

lessonVars == <<lesson_plans, activity_sheets>>

vars ==
    <<userVars, quizVars, vocabVars, diaryVars, arVars, lessonVars, codec,
      response>>

\* What the operations on one group of tables leave alone
notUserVars == <<quizVars, vocabVars, diaryVars, arVars, lessonVars, codec>>
notQuizVars == <<userVars, vocabVars, diaryVars, arVars, lessonVars, codec>>
notVocabVars == <<userVars, quizVars, diaryVars, arVars, lessonVars, codec>>
notDiaryVars == <<userVars, quizVars, vocabVars, arVars, lessonVars, codec>>
notArVars == <<userVars, quizVars, vocabVars, diaryVars, lessonVars, codec>>
notLessonVars == <<userVars, quizVars, vocabVars, diaryVars, arVars, codec>>
tables == <<userVars, quizVars, vocabVars, diaryVars, arVars, lessonVars>>

----------------------------------------------------------------------------
(* Bounds of the model *)

MaxUsers == 2

\* Rows stored in all tables together, in the specification of the
\* enum-typed attributes
MaxEnumRows == 3

\* Rows stored in all tables together, in the specification of the
\* strictly positive attributes
MaxPositiveRows == 5

\* Rows stored in the lesson tables together
MaxLessonRows == 2

\* Rows stored in the quiz tables together
MaxQuizRows == 5

\* Rows stored in the vocabulary tables together
MaxVocabRows == 3

\* Rows stored in the Hero's Diary tables together
MaxDiaryRows == 3

\* Rows stored in the augmented-reality tables together
MaxArRows == 5

----------------------------------------------------------------------------
(* Values *)

None == [none |-> TRUE]

Str(c, n) == [ch |-> c, len |-> n]

StrLen(s) == s.len

\* Field(max_length=n) on a str / Optional[str] attribute
MaxLengthOk(s, n) == StrLen(s) <= n

OptionalMaxLengthOk(s, n) == s = None \/ StrLen(s) <= n

\* class StudentGrade(str, Enum): member name |-> value
StudentGrade == [GRADE_4 |-> "4", GRADE_5 |-> "5", GRADE_6 |-> "6"]

\* class QuestionDifficulty(str, Enum)
QuestionDifficulty == [EASY |-> "easy", MEDIUM |-> "medium", HARD |-> "hard"]

\* class QuestionType(str, Enum)
QuestionType ==
    [MULTIPLE_CHOICE |-> "multiple_choice", TRUE_FALSE |-> "true_false",
     SHORT_ANSWER |-> "short_answer"]

\* class BadgeType(str, Enum)
BadgeType ==
    [LEVEL_COMPLETION |-> "level_completion", STREAK |-> "streak",
     PERFECT_SCORE |-> "perfect_score", EXPLORER |-> "explorer",
     SCHOLAR |-> "scholar"]

\* class MediaType(str, Enum)
MediaType ==
    [IMAGE |-> "image", AUDIO |-> "audio", VIDEO |-> "video",
     DOCUMENT |-> "document", MODEL_3D |-> "model_3d"]

\* class ARTriggerType(str, Enum)
ARTriggerType ==
    [BANKNOTE |-> "banknote", STAMP |-> "stamp",
     TEXTBOOK_IMAGE |-> "textbook_image", QR_CODE |-> "qr_code"]

EnumValues(enum) == {enum[m] : m \in DOMAIN enum}

\* Mutant: the input is looked up among the members' names as well
EnumParseByNameOrValue(enum, v) ==
    IF \E m \in DOMAIN enum : enum[m] = v
    THEN [member |-> CHOOSE m \in DOMAIN enum : enum[m] = v]
    ELSE IF v \in DOMAIN enum THEN [member |-> v]
    ELSE None

\* Validation of an enum-typed attribute: the input is looked up among the
\* members' values; the member is the result, None when there is none.
EnumParse(enum, v) ==
    IF \E m \in DOMAIN enum : enum[m] = v
    THEN [member |-> CHOOSE m \in DOMAIN enum : enum[m] = v]
    ELSE None

EnumOk(enum, v) == EnumParse(enum, v) # None

\* An attribute of a request that has a default may be left out
NotSupplied == [supplied |-> FALSE]

Supplied(v) == [supplied |-> TRUE, value |-> v]

\* Field(default=d): the default stands in for an attribute left out
WithDefault(field, d) == IF field.supplied THEN field.value ELSE d

\* An Optional[int] foreign key: None is 0, ids start at 1
NoneId == 0

----------------------------------------------------------------------------
(* Program constants: the declared maximum lengths *)

UsernameMaxLength == 50
EmailMaxLength == 255
FullNameMaxLength == 100
SchoolNameMaxLength == 200
CertificationNumberMaxLength == 50
SpecializationMaxLength == 100

----------------------------------------------------------------------------
(* Responses of the create operations *)

Created(op) == [op |-> op, status |-> "created", error |-> "none"]
Validated(op) == [op |-> op, status |-> "validated", error |-> "none"]
ValidationError(op) == [op |-> op, status |-> "rejected", error |-> "ValidationError"]
\* IntegrityError of the database, by the constraint that is violated
UniqueViolation(op) == [op |-> op, status |-> "rejected", error |-> "UniqueViolation"]
ForeignKeyViolation(op) == [op |-> op, status |-> "rejected", error |-> "ForeignKeyViolation"]

----------------------------------------------------------------------------
(* Users *)

Clients == {"c1", "c2"}

\* class UserCreate: the validation shape of a create-user request
UserCreateValid(req) ==
    /\ MaxLengthOk(req.username, UsernameMaxLength)
    /\ MaxLengthOk(req.email, EmailMaxLength)
    /\ MaxLengthOk(req.full_name, FullNameMaxLength)

\* class User: the field constraints of the table row
UserValid(row) ==
    /\ MaxLengthOk(row.username, UsernameMaxLength)
    /\ MaxLengthOk(row.email, EmailMaxLength)
    /\ MaxLengthOk(row.full_name, FullNameMaxLength)

\* Mutant: only the username column is declared unique
UserUniqueUsernameOnly(row) ==
    \A i \in 1..Len(users) : users[i].username # row.username

\* User.username and User.email: unique=True
UserUnique(row) ==
    \A i \in 1..Len(users) :
        /\ users[i].username # row.username
        /\ users[i].email # row.email

\* The User row of a request: id is assigned on insertion
UserRow(req) ==
    [id |-> Len(users) + 1, username |-> req.username, email |-> req.email,
     full_name |-> req.full_name, is_teacher |-> req.is_teacher]

\* A client's request is validated against UserCreate
SubmitUserCreate(c, req) ==
    /\ pending[c] = None
    /\ IF UserCreateValid(req)
       THEN /\ pending' = [pending EXCEPT ![c] = req]
            /\ response' = Validated("UserCreate")
       ELSE /\ pending' = pending
            /\ response' = ValidationError("UserCreate")
    /\ UNCHANGED <<users, student_profiles, teacher_profiles, notUserVars>>

\* The validated request is inserted into the users table
InsertUser(c) ==
    /\ pending[c] # None
    /\ pending' = [pending EXCEPT ![c] = None]
    /\ LET row == UserRow(pending[c]) IN
       IF ~UserValid(row)
       THEN /\ users' = users
            /\ response' = ValidationError("User")
       ELSE IF ~UserUnique(row)
       THEN /\ users' = users
            /\ response' = UniqueViolation("User")
       ELSE /\ Len(users) < MaxUsers
            /\ users' = Append(users, row)
            /\ response' = Created("User")
    /\ UNCHANGED <<student_profiles, teacher_profiles, notUserVars>>

\* User.student_profile: the profiles whose user_id is the user's id
UserStudentProfiles(u) ==
    {i \in 1..Len(student_profiles) : student_profiles[i].user_id = u}

\* User.teacher_profile
UserTeacherProfiles(u) ==
    {i \in 1..Len(teacher_profiles) : teacher_profiles[i].user_id = u}

\* Mutant: user_id is declared without its foreign key
UserExistsNotEnforced(uid) == uid = uid

\* StudentProfile.user / TeacherProfile.user: the users the row's user_id
\* resolves to
ProfileUsers(profile) ==
    {i \in 1..Len(users) : users[i].id = profile.user_id}

\* foreign_key="users.id"
UserExists(uid) == uid \in 1..Len(users)

\* foreign_key="student_profiles.id"
StudentExists(sid) == sid \in 1..Len(student_profiles)

\* class StudentCreate / StudentProfile: grade is a StudentGrade, school_name
\* has at most 200 characters
StudentValid(req) ==
    /\ EnumOk(StudentGrade, req.grade)
    /\ MaxLengthOk(req.school_name, SchoolNameMaxLength)

\* Mutant: user_id is declared without unique=True
StudentUserIdNotUnique(uid) == uid = uid

\* StudentProfile.user_id: unique=True
StudentUserIdUnique(uid) == UserStudentProfiles(uid) = {}

StudentRow(uid, req) ==
    [id |-> Len(student_profiles) + 1, user_id |-> uid,
     grade |-> EnumParse(StudentGrade, req.grade).member,
     school_name |-> req.school_name,
     total_points |-> 0, current_level |-> 1, streak_days |-> 0]

CreateStudentProfile(uid, req) ==
    /\ IF ~StudentValid(req)
       THEN /\ student_profiles' = student_profiles
            /\ response' = ValidationError("StudentProfile")
       ELSE IF ~UserExists(uid)
       THEN /\ student_profiles' = student_profiles
            /\ response' = ForeignKeyViolation("StudentProfile")
       ELSE IF ~StudentUserIdUnique(uid)
       THEN /\ student_profiles' = student_profiles
            /\ response' = UniqueViolation("StudentProfile")
       ELSE /\ student_profiles' = Append(student_profiles, StudentRow(uid, req))
            /\ response' = Created("StudentProfile")
    /\ UNCHANGED <<users, teacher_profiles, pending, notUserVars>>

\* class TeacherCreate / TeacherProfile
TeacherValid(req) ==
    /\ MaxLengthOk(req.school_name, SchoolNameMaxLength)
    /\ OptionalMaxLengthOk(req.certification_number, CertificationNumberMaxLength)
    /\ OptionalMaxLengthOk(req.specialization, SpecializationMaxLength)

\* Mutant: a teacher profile excludes a student profile of the same user
TeacherUserIdExclusive(uid) ==
    UserTeacherProfiles(uid) = {} /\ UserStudentProfiles(uid) = {}

\* TeacherProfile.user_id: unique=True
TeacherUserIdUnique(uid) == UserTeacherProfiles(uid) = {}

TeacherRow(uid, req) ==
    [id |-> Len(teacher_profiles) + 1, user_id |-> uid,
     school_name |-> req.school_name,
     certification_number |-> req.certification_number,
     specialization |-> req.specialization]

CreateTeacherProfile(uid, req) ==
    /\ IF ~TeacherValid(req)
       THEN /\ teacher_profiles' = teacher_profiles
            /\ response' = ValidationError("TeacherProfile")
       ELSE IF ~UserExists(uid)
       THEN /\ teacher_profiles' = teacher_profiles
            /\ response' = ForeignKeyViolation("TeacherProfile")
       ELSE IF ~TeacherUserIdUnique(uid)
       THEN /\ teacher_profiles' = teacher_profiles
            /\ response' = UniqueViolation("TeacherProfile")
       ELSE /\ teacher_profiles' = Append(teacher_profiles, TeacherRow(uid, req))
            /\ response' = Created("TeacherProfile")
    /\ UNCHANGED <<users, student_profiles, pending, notUserVars>>

----------------------------------------------------------------------------
(* Inputs of the users specification *)

UserRequests ==
    { [username |-> Str("a", 3), email |-> Str("x", 7),
       full_name |-> Str("n", 10), is_teacher |-> FALSE],
      [username |-> Str("a", 3), email |-> Str("y", EmailMaxLength),
       full_name |-> Str("n", FullNameMaxLength), is_teacher |-> TRUE],
      [username |-> Str("b", UsernameMaxLength), email |-> Str("x", 7),
       full_name |-> Str("n", 10), is_teacher |-> FALSE],
      [username |-> Str("c", UsernameMaxLength + 1), email |-> Str("z", 7),
       full_name |-> Str("n", 10), is_teacher |-> FALSE],
      [username |-> Str("c", 3), email |-> Str("z", EmailMaxLength + 1),
       full_name |-> Str("n", 10), is_teacher |-> FALSE],
      [username |-> Str("c", 3), email |-> Str("z", 7),
       full_name |-> Str("n", FullNameMaxLength + 1), is_teacher |-> TRUE] }

UserIds == 1..(MaxUsers + 1)

StudentRequests ==
    { [grade |-> "4", school_name |-> Str("s", 5)],
      [grade |-> "6", school_name |-> Str("s", SchoolNameMaxLength)],
      [grade |-> "7", school_name |-> Str("s", 5)],
      [grade |-> "GRADE_4", school_name |-> Str("s", 5)],
      [grade |-> "4", school_name |-> Str("s", SchoolNameMaxLength + 1)] }

TeacherRequests ==
    { [school_name |-> Str("s", 5), certification_number |-> None,
       specialization |-> None],
      [school_name |-> Str("s", SchoolNameMaxLength + 1),
       certification_number |-> None, specialization |-> None],
      [school_name |-> Str("s", 5),
       certification_number |-> Str("k", CertificationNumberMaxLength + 1),
       specialization |-> None],
      [school_name |-> Str("s", 5), certification_number |-> None,
       specialization |-> Str("h", SpecializationMaxLength + 1)] }

\* Every table is empty and no request is in flight
Init ==
    /\ users = <<>>
    /\ student_profiles = <<>>
    /\ teacher_profiles = <<>>
    /\ pending = [c \in Clients |-> None]
    /\ historical_periods = <<>>
    /\ quiz_levels = <<>>
    /\ quiz_questions = <<>>
    /\ quiz_attempts = <<>>
    /\ student_answers = <<>>
    /\ badges = <<>>
    /\ vocabulary_terms = <<>>
    /\ vocabulary_visuals = <<>>
    /\ term_connections = <<>>
    /\ historical_figures = <<>>
    /\ timeline_events = <<>>
    /\ hero_diary_progress = <<>>
    /\ ar_triggers = <<>>
    /\ ar_models = <<>>
    /\ ar_experiences = <<>>
    /\ ar_sessions = <<>>
    /\ lesson_plans = <<>>
    /\ activity_sheets = <<>>
    /\ codec = [pc |-> "idle", enum |-> "StudentGrade", source |-> None,
                wire |-> "", decoded |-> None]
    /\ response = [op |-> "none", status |-> "none", error |-> "none"]

NextUsers ==
    \/ \E c \in Clients, req \in UserRequests : SubmitUserCreate(c, req)
    \/ \E c \in Clients : InsertUser(c)
    \/ \E uid \in UserIds, req \in StudentRequests : CreateStudentProfile(uid, req)
    \/ \E uid \in UserIds, req \in TeacherRequests : CreateTeacherProfile(uid, req)

SpecUsers == Init /\ [][NextUsers]_vars

----------------------------------------------------------------------------
(* Quiz Adventure *)

PeriodNameMaxLength == 100
PeriodDescriptionMaxLength == 1000
LevelTitleMaxLength == 200
LevelDescriptionMaxLength == 500
QuestionTextMaxLength == 1000
ExplanationMaxLength == 1000
CorrectAnswerMaxLength == 500
PointsValueDefault == 10
StudentAnswerMaxLength == 1000
PointsEarnedDefault == 0
TotalPointsEarnedDefault == 0
BadgeNameMaxLength == 100
BadgeDescriptionMaxLength == 500
IconUrlMaxLength == 500

QuizRows ==
    Len(historical_periods) + Len(quiz_levels) + Len(quiz_questions)
      + Len(quiz_attempts) + Len(student_answers) + Len(badges)

\* Mutant: the attribute is declared with ge=0
GreaterOrEqualZero(v) == v >= 0

\* Field(gt=0) on an int attribute
GreaterThanZero(v) == v > 0

\* class HistoricalPeriod
HistoricalPeriodValid(req) ==
    /\ MaxLengthOk(req.name, PeriodNameMaxLength)
    /\ MaxLengthOk(req.description, PeriodDescriptionMaxLength)

\* HistoricalPeriod.name: unique=True
PeriodNameUnique(name) ==
    \A i \in 1..Len(historical_periods) : historical_periods[i].name # name

HistoricalPeriodRow(req) ==
    [id |-> Len(historical_periods) + 1, name |-> req.name,
     description |-> req.description, display_order |-> 0,
     background_image |-> None]

CreateHistoricalPeriod(req) ==
    /\ IF ~HistoricalPeriodValid(req)
       THEN /\ historical_periods' = historical_periods
            /\ response' = ValidationError("HistoricalPeriod")
       ELSE IF ~PeriodNameUnique(req.name)
       THEN /\ historical_periods' = historical_periods
            /\ response' = UniqueViolation("HistoricalPeriod")
       ELSE /\ QuizRows < MaxQuizRows
            /\ historical_periods' = Append(historical_periods, HistoricalPeriodRow(req))
            /\ response' = Created("HistoricalPeriod")
    /\ UNCHANGED <<quiz_levels, quiz_questions, quiz_attempts, student_answers,
                   badges, notQuizVars>>

\* foreign_key="historical_periods.id"
PeriodExists(pid) == pid \in 1..Len(historical_periods)

\* class QuizLevel
QuizLevelValid(req) ==
    /\ GreaterThanZero(req.level_number)
    /\ MaxLengthOk(req.title, LevelTitleMaxLength)
    /\ MaxLengthOk(req.description, LevelDescriptionMaxLength)
    /\ GreaterThanZero(req.completion_points_reward)

QuizLevelRow(req) ==
    [id |-> Len(quiz_levels) + 1,
     historical_period_id |-> req.historical_period_id,
     level_number |-> req.level_number, title |-> req.title,
     description |-> req.description, unlock_points_required |-> 0,
     completion_points_reward |-> req.completion_points_reward,
     max_attempts |-> 3]

CreateQuizLevel(req) ==
    /\ IF ~QuizLevelValid(req)
       THEN /\ quiz_levels' = quiz_levels
            /\ response' = ValidationError("QuizLevel")
       ELSE IF ~PeriodExists(req.historical_period_id)
       THEN /\ quiz_levels' = quiz_levels
            /\ response' = ForeignKeyViolation("QuizLevel")
       ELSE /\ QuizRows < MaxQuizRows
            /\ quiz_levels' = Append(quiz_levels, QuizLevelRow(req))
            /\ response' = Created("QuizLevel")
    /\ UNCHANGED <<historical_periods, quiz_questions, quiz_attempts,
                   student_answers, badges, notQuizVars>>

\* foreign_key="quiz_levels.id"
LevelExists(lid) == lid \in 1..Len(quiz_levels)

\* class QuizQuestion
QuizQuestionValid(req) ==
    /\ MaxLengthOk(req.question_text, QuestionTextMaxLength)
    /\ EnumOk(QuestionType, req.question_type)
    /\ EnumOk(QuestionDifficulty, req.difficulty)
    /\ req.points_value.supplied => GreaterThanZero(req.points_value.value)
    /\ MaxLengthOk(req.explanation, ExplanationMaxLength)
    /\ MaxLengthOk(req.correct_answer, CorrectAnswerMaxLength)

QuizQuestionRow(req) ==
    [id |-> Len(quiz_questions) + 1, quiz_level_id |-> req.quiz_level_id,
     question_text |-> req.question_text,
     question_type |-> EnumParse(QuestionType, req.question_type).member,
     difficulty |-> EnumParse(QuestionDifficulty, req.difficulty).member,
     points_value |-> WithDefault(req.points_value, PointsValueDefault),
     explanation |-> req.explanation, media_url |-> None,
     correct_answer |-> req.correct_answer, display_order |-> 0]

CreateQuizQuestion(req) ==
    /\ IF ~QuizQuestionValid(req)
       THEN /\ quiz_questions' = quiz_questions
            /\ response' = ValidationError("QuizQuestion")
       ELSE IF ~LevelExists(req.quiz_level_id)
       THEN /\ quiz_questions' = quiz_questions
            /\ response' = ForeignKeyViolation("QuizQuestion")
       ELSE /\ QuizRows < MaxQuizRows
            /\ quiz_questions' = Append(quiz_questions, QuizQuestionRow(req))
            /\ response' = Created("QuizQuestion")
    /\ UNCHANGED <<historical_periods, quiz_levels, quiz_attempts,
                   student_answers, badges, notQuizVars>>

\* class QuizAttempt (QuizAttemptCreate carries quiz_level_id)
QuizAttemptValid(req) == GreaterThanZero(req.attempt_number)

\* Mutant: total_points_earned takes the default of points_value
QuizAttemptRowDefaultOfPointsValue(req) ==
    [id |-> Len(quiz_attempts) + 1, student_id |-> req.student_id,
     quiz_level_id |-> req.quiz_level_id,
     attempt_number |-> req.attempt_number, score |-> 0,
     total_points_earned |->
        WithDefault(req.total_points_earned, PointsValueDefault),
     is_completed |-> FALSE, is_passed |-> FALSE]

QuizAttemptRow(req) ==
    [id |-> Len(quiz_attempts) + 1, student_id |-> req.student_id,
     quiz_level_id |-> req.quiz_level_id,
     attempt_number |-> req.attempt_number, score |-> 0,
     total_points_earned |->
        WithDefault(req.total_points_earned, TotalPointsEarnedDefault),
     is_completed |-> FALSE, is_passed |-> FALSE]

CreateQuizAttempt(req) ==
    /\ IF ~QuizAttemptValid(req)
       THEN /\ quiz_attempts' = quiz_attempts
            /\ response' = ValidationError("QuizAttempt")
       ELSE IF ~(StudentExists(req.student_id) /\ LevelExists(req.quiz_level_id))
       THEN /\ quiz_attempts' = quiz_attempts
            /\ response' = ForeignKeyViolation("QuizAttempt")
       ELSE /\ QuizRows < MaxQuizRows
            /\ quiz_attempts' = Append(quiz_attempts, QuizAttemptRow(req))
            /\ response' = Created("QuizAttempt")
    /\ UNCHANGED <<historical_periods, quiz_levels, quiz_questions,
                   student_answers, badges, notQuizVars>>

\* Mutant: StudentAnswerCreate.student_answer declared without max_length
StudentAnswerValidNoMaxLength(req) == req.student_answer.len >= 0

\* class StudentAnswerCreate / StudentAnswer
StudentAnswerValid(req) ==
    MaxLengthOk(req.student_answer, StudentAnswerMaxLength)

StudentAnswerRow(req) ==
    [id |-> Len(student_answers) + 1,
     quiz_attempt_id |-> req.quiz_attempt_id, question_id |-> req.question_id,
     student_answer |-> req.student_answer, is_correct |-> req.is_correct,
     points_earned |-> WithDefault(req.points_earned, PointsEarnedDefault)]

CreateStudentAnswer(req) ==
    /\ IF ~StudentAnswerValid(req)
       THEN /\ student_answers' = student_answers
            /\ response' = ValidationError("StudentAnswer")
       ELSE IF ~(req.quiz_attempt_id \in 1..Len(quiz_attempts)
                   /\ req.question_id \in 1..Len(quiz_questions))
       THEN /\ student_answers' = student_answers
            /\ response' = ForeignKeyViolation("StudentAnswer")
       ELSE /\ QuizRows < MaxQuizRows
            /\ student_answers' = Append(student_answers, StudentAnswerRow(req))
            /\ response' = Created("StudentAnswer")
    /\ UNCHANGED <<historical_periods, quiz_levels, quiz_questions,
                   quiz_attempts, badges, notQuizVars>>

\* class Badge
BadgeValid(req) ==
    /\ MaxLengthOk(req.name, BadgeNameMaxLength)
    /\ MaxLengthOk(req.description, BadgeDescriptionMaxLength)
    /\ EnumOk(BadgeType, req.badge_type)
    /\ MaxLengthOk(req.icon_url, IconUrlMaxLength)

\* Badge.name: unique=True
BadgeNameUnique(name) == \A i \in 1..Len(badges) : badges[i].name # name

BadgeRow(req) ==
    [id |-> Len(badges) + 1, name |-> req.name, description |-> req.description,
     badge_type |-> EnumParse(BadgeType, req.badge_type).member,
     icon_url |-> req.icon_url, points_reward |-> 0, is_active |-> TRUE]

CreateBadge(req) ==
    /\ IF ~BadgeValid(req)
       THEN /\ badges' = badges
            /\ response' = ValidationError("Badge")
       ELSE IF ~BadgeNameUnique(req.name)
       THEN /\ badges' = badges
            /\ response' = UniqueViolation("Badge")
       ELSE /\ QuizRows < MaxQuizRows
            /\ badges' = Append(badges, BadgeRow(req))
            /\ response' = Created("Badge")
    /\ UNCHANGED <<historical_periods, quiz_levels, quiz_questions,
                   quiz_attempts, student_answers, notQuizVars>>

\* QuizAttempt.student_answers: the answers whose quiz_attempt_id is the
\* attempt's id
AttemptAnswers(aid) ==
    {i \in 1..Len(student_answers) : student_answers[i].quiz_attempt_id = aid}

RECURSIVE SumPointsEarned(_)
\* The sum of points_earned over a set of student_answers rows
SumPointsEarned(rows) ==
    IF rows = {} THEN 0
    ELSE LET i == CHOOSE j \in rows : TRUE
         IN student_answers[i].points_earned + SumPointsEarned(rows \ {i})

(* Inputs of the quiz specification *)

QuizUserRequests ==
    { [username |-> Str("a", 3), email |-> Str("x", 7),
       full_name |-> Str("n", 10), is_teacher |-> FALSE],
      [username |-> Str("c", UsernameMaxLength + 1), email |-> Str("x", 7),
       full_name |-> Str("n", 10), is_teacher |-> FALSE],
      [username |-> Str("a", 3), email |-> Str("z", EmailMaxLength + 1),
       full_name |-> Str("n", 10), is_teacher |-> FALSE] }

QuizStudentRequests == { [grade |-> "4", school_name |-> Str("s", 5)] }

HistoricalPeriodRequests ==
    { [name |-> Str("k", 9), description |-> Str("d", 30)],
      [name |-> Str("k", PeriodNameMaxLength + 1), description |-> Str("d", 30)] }

QuizLevelRequests ==
    [historical_period_id : 1..2, level_number : {0, 1}, title : {Str("l", 7)},
     description : {Str("d", 30)}, completion_points_reward : {0, 10}]

QuizQuestionRequests ==
    [quiz_level_id : 1..2, question_text : {Str("q", 25)},
     question_type : {"true_false"}, difficulty : {"easy"},
     points_value : {NotSupplied, Supplied(0)}, explanation : {Str("e", 15)},
     correct_answer : {Str("t", 4)}]

QuizAttemptRequests ==
    [student_id : 1..2, quiz_level_id : {1}, attempt_number : {0, 1},
     total_points_earned : {NotSupplied, Supplied(10)}]

StudentAnswerRequests ==
    [quiz_attempt_id : 1..2, question_id : {1},
     student_answer : {Str("w", 4), Str("w", StudentAnswerMaxLength),
                       Str("w", StudentAnswerMaxLength + 1)},
     is_correct : {TRUE}, points_earned : {NotSupplied, Supplied(10)}]

NextQuiz ==
    \/ \E req \in QuizUserRequests : SubmitUserCreate("c1", req)
    \/ InsertUser("c1")
    \/ \E req \in QuizStudentRequests : CreateStudentProfile(1, req)
    \/ \E req \in HistoricalPeriodRequests : CreateHistoricalPeriod(req)
    \/ \E req \in QuizLevelRequests : CreateQuizLevel(req)
    \/ \E req \in QuizQuestionRequests : CreateQuizQuestion(req)
    \/ \E req \in QuizAttemptRequests : CreateQuizAttempt(req)
    \/ \E req \in StudentAnswerRequests : CreateStudentAnswer(req)

SpecQuiz == Init /\ [][NextQuiz]_vars

----------------------------------------------------------------------------
(* Vocabulary explorer *)

TermMaxLength == 100
DefinitionMaxLength == 2000
PronunciationMaxLength == 200
RelationshipTypeMaxLength == 50
ConnectionDescriptionMaxLength == 500
MediaUrlMaxLength == 500
CaptionMaxLength == 500
AltTextMaxLength == 300
StrengthDefault == 1
StrengthMin == 1
StrengthMax == 5

VocabRows ==
    Len(vocabulary_terms) + Len(vocabulary_visuals) + Len(term_connections)

\* historical_period_id: Optional[int] = Field(foreign_key="historical_periods.id")
OptionalPeriodExists(pid) == pid = NoneId \/ pid \in 1..Len(historical_periods)

\* class VocabularyTermCreate / VocabularyTerm
VocabularyTermValid(req) ==
    /\ MaxLengthOk(req.term, TermMaxLength)
    /\ MaxLengthOk(req.definition, DefinitionMaxLength)
    /\ OptionalMaxLengthOk(req.pronunciation, PronunciationMaxLength)
    /\ EnumOk(QuestionDifficulty, req.difficulty_level)
    /\ EnumOk(StudentGrade, req.grade_level)

VocabularyTermRow(req) ==
    [id |-> Len(vocabulary_terms) + 1,
     historical_period_id |-> req.historical_period_id,
     term |-> req.term, definition |-> req.definition,
     pronunciation |-> req.pronunciation,
     audio_url |-> None, etymology |-> None, usage_example |-> None,
     difficulty_level |-> EnumParse(QuestionDifficulty, req.difficulty_level).member,
     grade_level |-> EnumParse(StudentGrade, req.grade_level).member]

CreateVocabularyTerm(req) ==
    /\ IF ~VocabularyTermValid(req)
       THEN /\ vocabulary_terms' = vocabulary_terms
            /\ response' = ValidationError("VocabularyTerm")
       ELSE IF ~OptionalPeriodExists(req.historical_period_id)
       THEN /\ vocabulary_terms' = vocabulary_terms
            /\ response' = ForeignKeyViolation("VocabularyTerm")
       ELSE /\ VocabRows < MaxVocabRows
            /\ vocabulary_terms' = Append(vocabulary_terms, VocabularyTermRow(req))
            /\ response' = Created("VocabularyTerm")
    /\ UNCHANGED <<vocabulary_visuals, term_connections, notVocabVars>>

\* Mutant: strength declared with ge=0
StrengthOkFromZero(v) == v >= 0 /\ v <= StrengthMax

\* TermConnection.strength: Field(default=1, ge=1, le=5)
StrengthOk(v) == v >= StrengthMin /\ v <= StrengthMax

\* class TermConnection: the declared field constraints (a default is not
\* validated)
TermConnectionValid(req) ==
    /\ MaxLengthOk(req.relationship_type, RelationshipTypeMaxLength)
    /\ OptionalMaxLengthOk(req.description, ConnectionDescriptionMaxLength)
    /\ req.strength.supplied => StrengthOk(req.strength.value)

\* foreign_key="vocabulary_terms.id"
TermExists(tid) == tid \in 1..Len(vocabulary_terms)

TermConnectionRow(req) ==
    [id |-> Len(term_connections) + 1,
     source_term_id |-> req.source_term_id,
     target_term_id |-> req.target_term_id,
     relationship_type |-> req.relationship_type,
     description |-> req.description,
     strength |-> WithDefault(req.strength, StrengthDefault)]

CreateTermConnection(req) ==
    /\ IF ~TermConnectionValid(req)
       THEN /\ term_connections' = term_connections
            /\ response' = ValidationError("TermConnection")
       ELSE IF ~(TermExists(req.source_term_id) /\ TermExists(req.target_term_id))
       THEN /\ term_connections' = term_connections
            /\ response' = ForeignKeyViolation("TermConnection")
       ELSE /\ VocabRows < MaxVocabRows
            /\ term_connections' = Append(term_connections, TermConnectionRow(req))
            /\ response' = Created("TermConnection")
    /\ UNCHANGED <<vocabulary_terms, vocabulary_visuals, notVocabVars>>

\* class VocabularyVisual
VocabularyVisualValid(req) ==
    /\ EnumOk(MediaType, req.media_type)
    /\ MaxLengthOk(req.media_url, MediaUrlMaxLength)
    /\ OptionalMaxLengthOk(req.caption, CaptionMaxLength)
    /\ MaxLengthOk(req.alt_text, AltTextMaxLength)

VocabularyVisualRow(req) ==
    [id |-> Len(vocabulary_visuals) + 1,
     vocabulary_term_id |-> req.vocabulary_term_id,
     media_type |-> EnumParse(MediaType, req.media_type).member,
     media_url |-> req.media_url, caption |-> req.caption,
     alt_text |-> req.alt_text, display_order |-> 0]

CreateVocabularyVisual(req) ==
    /\ IF ~VocabularyVisualValid(req)
       THEN /\ vocabulary_visuals' = vocabulary_visuals
            /\ response' = ValidationError("VocabularyVisual")
       ELSE IF ~TermExists(req.vocabulary_term_id)
       THEN /\ vocabulary_visuals' = vocabulary_visuals
            /\ response' = ForeignKeyViolation("VocabularyVisual")
       ELSE /\ VocabRows < MaxVocabRows
            /\ vocabulary_visuals' = Append(vocabulary_visuals, VocabularyVisualRow(req))
            /\ response' = Created("VocabularyVisual")
    /\ UNCHANGED <<vocabulary_terms, term_connections, notVocabVars>>

(* Inputs of the vocabulary specification *)

VocabularyTermRequests ==
    { [historical_period_id |-> NoneId, term |-> Str("t", 4),
       definition |-> Str("d", 20), pronunciation |-> None,
       difficulty_level |-> "easy", grade_level |-> "4"],
      [historical_period_id |-> NoneId, term |-> Str("u", TermMaxLength),
       definition |-> Str("d", DefinitionMaxLength),
       pronunciation |-> Str("p", PronunciationMaxLength),
       difficulty_level |-> "hard", grade_level |-> "6"],
      [historical_period_id |-> 1, term |-> Str("t", 4),
       definition |-> Str("d", 20), pronunciation |-> None,
       difficulty_level |-> "easy", grade_level |-> "4"],
      [historical_period_id |-> NoneId, term |-> Str("t", TermMaxLength + 1),
       definition |-> Str("d", 20), pronunciation |-> None,
       difficulty_level |-> "easy", grade_level |-> "4"],
      [historical_period_id |-> NoneId, term |-> Str("t", 4),
       definition |-> Str("d", 20), pronunciation |-> None,
       difficulty_level |-> "EASY", grade_level |-> "4"],
      [historical_period_id |-> NoneId, term |-> Str("t", 4),
       definition |-> Str("d", 20), pronunciation |-> None,
       difficulty_level |-> "medium", grade_level |-> "3"] }

StrengthInputs ==
    {NotSupplied} \cup {Supplied(v) : v \in {-1, 0, 1, 5, 6}}

TermIds == 1..2

TermConnectionRequests ==
    [source_term_id : TermIds, target_term_id : TermIds,
     relationship_type : {Str("r", 7)}, description : {None},
     strength : StrengthInputs]
      \cup
    [source_term_id : {1}, target_term_id : {1},
     relationship_type : {Str("r", RelationshipTypeMaxLength + 1)},
     description : {None}, strength : {NotSupplied}]

NextVocab ==
    \/ \E req \in VocabularyTermRequests : CreateVocabularyTerm(req)
    \/ \E req \in TermConnectionRequests : CreateTermConnection(req)

SpecVocab == Init /\ [][NextVocab]_vars

----------------------------------------------------------------------------
(* Hero's Diary *)

FigureNameMaxLength == 100
BiographySummaryMaxLength == 2000
EventTitleMaxLength == 200
EventDescriptionMaxLength == 1000
EventLocationMaxLength == 200
ImportanceLevelDefault == 1
ImportanceLevelMin == 1
ImportanceLevelMax == 5
NotesMaxLength == 2000
CompletionPercentageDefault == 0
CompletionPercentageMaxDigits == 5
CompletionPercentageDecimalPlaces == 2

DiaryRows ==
    Len(historical_figures) + Len(timeline_events) + Len(hero_diary_progress)

\* class HistoricalFigure
HistoricalFigureValid(req) ==
    /\ MaxLengthOk(req.name, FigureNameMaxLength)
    /\ MaxLengthOk(req.biography_summary, BiographySummaryMaxLength)
    /\ EnumOk(StudentGrade, req.reading_level)

HistoricalFigureRow(req) ==
    [id |-> Len(historical_figures) + 1,
     historical_period_id |-> req.historical_period_id,
     name |-> req.name, biography_summary |-> req.biography_summary,
     birth_place |-> None, occupation |-> None, portrait_url |-> None,
     is_featured |-> FALSE,
     reading_level |-> EnumParse(StudentGrade, req.reading_level).member]

CreateHistoricalFigure(req) ==
    /\ IF ~HistoricalFigureValid(req)
       THEN /\ historical_figures' = historical_figures
            /\ response' = ValidationError("HistoricalFigure")
       ELSE IF ~OptionalPeriodExists(req.historical_period_id)
       THEN /\ historical_figures' = historical_figures
            /\ response' = ForeignKeyViolation("HistoricalFigure")
       ELSE /\ DiaryRows < MaxDiaryRows
            /\ historical_figures' = Append(historical_figures, HistoricalFigureRow(req))
            /\ response' = Created("HistoricalFigure")
    /\ UNCHANGED <<timeline_events, hero_diary_progress, notDiaryVars>>

\* foreign_key="historical_figures.id"
FigureExists(fid) == fid \in 1..Len(historical_figures)

\* Mutant: importance_level declared with le=6
ImportanceLevelOkToSix(v) == v >= ImportanceLevelMin /\ v <= ImportanceLevelMax + 1

\* TimelineEvent.importance_level: Field(default=1, ge=1, le=5)
ImportanceLevelOk(v) == v >= ImportanceLevelMin /\ v <= ImportanceLevelMax

\* class TimelineEvent
TimelineEventValid(req) ==
    /\ MaxLengthOk(req.title, EventTitleMaxLength)
    /\ MaxLengthOk(req.description, EventDescriptionMaxLength)
    /\ OptionalMaxLengthOk(req.location, EventLocationMaxLength)
    /\ req.importance_level.supplied => ImportanceLevelOk(req.importance_level.value)

TimelineEventRow(req) ==
    [id |-> Len(timeline_events) + 1,
     historical_figure_id |-> req.historical_figure_id,
     title |-> req.title, description |-> req.description,
     importance_level |-> WithDefault(req.importance_level, ImportanceLevelDefault),
     location |-> req.location, display_order |-> 0]

CreateTimelineEvent(req) ==
    /\ IF ~TimelineEventValid(req)
       THEN /\ timeline_events' = timeline_events
            /\ response' = ValidationError("TimelineEvent")
       ELSE IF ~FigureExists(req.historical_figure_id)
       THEN /\ timeline_events' = timeline_events
            /\ response' = ForeignKeyViolation("TimelineEvent")
       ELSE /\ DiaryRows < MaxDiaryRows
            /\ timeline_events' = Append(timeline_events, TimelineEventRow(req))
            /\ response' = Created("TimelineEvent")
    /\ UNCHANGED <<historical_figures, hero_diary_progress, notDiaryVars>>

(* A Decimal is modelled by its value in thousandths (12.345 is 12345); the *)
(* column NUMERIC(5, 2) holds hundredths.                                   *)

RECURSIVE NumDigits(_)
NumDigits(n) == IF n < 10 THEN 1 ELSE 1 + NumDigits(n \div 10)

DecimalAbs(v) == IF v < 0 THEN -v ELSE v

\* The decimal places the value needs (its normalized exponent)
DecimalPlaces(v) ==
    IF v % 1000 = 0 THEN 0
    ELSE IF v % 100 = 0 THEN 1
    ELSE IF v % 10 = 0 THEN 2
    ELSE 3

\* The digits before the decimal point: none for a fraction below one
DecimalWholeDigits(v) ==
    IF DecimalAbs(v) \div 1000 = 0
    THEN (IF DecimalPlaces(v) = 0 THEN 1 ELSE 0)
    ELSE NumDigits(DecimalAbs(v) \div 1000)

DecimalDigits(v) == DecimalWholeDigits(v) + DecimalPlaces(v)

\* Field(max_digits=m, decimal_places=p) on a Decimal attribute
DecimalOk(v, m, p) ==
    /\ DecimalDigits(v) <= m
    /\ DecimalPlaces(v) <= p
    /\ DecimalWholeDigits(v) <= m - p

\* Mutant: completion_percentage declared with decimal_places=3
CompletionPercentageOkThreePlaces(v) ==
    DecimalOk(v, CompletionPercentageMaxDigits + 1,
              CompletionPercentageDecimalPlaces + 1)

\* HeroDiaryProgress.completion_percentage:
\* Field(default=Decimal("0"), max_digits=5, decimal_places=2)
CompletionPercentageOk(v) ==
    DecimalOk(v, CompletionPercentageMaxDigits, CompletionPercentageDecimalPlaces)

\* Storing into the NUMERIC(5, 2) column: the value in hundredths, rounded
DecimalStore(v) ==
    IF v >= 0 THEN (v + 5) \div 10 ELSE -((-v + 5) \div 10)

\* Loading the column: the Decimal of the stored hundredths
DecimalLoad(h) == h * 10

\* class HeroDiaryProgress
HeroDiaryProgressValid(req) ==
    /\ OptionalMaxLengthOk(req.notes, NotesMaxLength)
    /\ req.completion_percentage.supplied
         => CompletionPercentageOk(req.completion_percentage.value)

HeroDiaryProgressRow(req) ==
    [id |-> Len(hero_diary_progress) + 1,
     student_id |-> req.student_id,
     historical_figure_id |-> req.historical_figure_id,
     entries_read |-> 0, total_entries |-> 0,
     completion_percentage |->
        DecimalStore(WithDefault(req.completion_percentage, CompletionPercentageDefault)),
     notes |-> req.notes]

CreateHeroDiaryProgress(req) ==
    /\ IF ~HeroDiaryProgressValid(req)
       THEN /\ hero_diary_progress' = hero_diary_progress
            /\ response' = ValidationError("HeroDiaryProgress")
       ELSE IF ~(StudentExists(req.student_id) /\ FigureExists(req.historical_figure_id))
       THEN /\ hero_diary_progress' = hero_diary_progress
            /\ response' = ForeignKeyViolation("HeroDiaryProgress")
       ELSE /\ DiaryRows < MaxDiaryRows
            /\ hero_diary_progress' = Append(hero_diary_progress, HeroDiaryProgressRow(req))
            /\ response' = Created("HeroDiaryProgress")
    /\ UNCHANGED <<historical_figures, timeline_events, notDiaryVars>>

(* Inputs of the Hero's Diary specification *)

DiaryUserRequests ==
    { [username |-> Str("a", 3), email |-> Str("x", 7),
       full_name |-> Str("n", 10), is_teacher |-> FALSE] }

DiaryStudentRequests == { [grade |-> "5", school_name |-> Str("s", 5)] }

HistoricalFigureRequests ==
    { [historical_period_id |-> NoneId, name |-> Str("f", 9),
       biography_summary |-> Str("b", 40), reading_level |-> "5"],
      [historical_period_id |-> 1, name |-> Str("f", 9),
       biography_summary |-> Str("b", 40), reading_level |-> "5"],
      [historical_period_id |-> NoneId, name |-> Str("f", FigureNameMaxLength + 1),
       biography_summary |-> Str("b", 40), reading_level |-> "5"],
      [historical_period_id |-> NoneId, name |-> Str("f", 9),
       biography_summary |-> Str("b", 40), reading_level |-> "GRADE_5"] }

ImportanceLevelInputs ==
    {NotSupplied} \cup {Supplied(v) : v \in {-3, 0, 1, 5, 6}}

TimelineEventRequests ==
    [historical_figure_id : 1..2, title : {Str("e", 12)},
     description : {Str("d", 30)}, location : {None},
     importance_level : ImportanceLevelInputs]
      \cup
    [historical_figure_id : {1}, title : {Str("e", EventTitleMaxLength + 1)},
     description : {Str("d", 30)}, location : {None},
     importance_level : {NotSupplied}]

\* 0, 0.01, 0.5, 12.34, 12.345, 100, 999.99, 999.999, 1000, 1234.5
CompletionPercentageInputs ==
    {NotSupplied} \cup
    {Supplied(v) : v \in {0, 10, 500, 12340, 12345, 100000, 999990, 999999,
                          1000000, 1234500}}

HeroDiaryProgressRequests ==
    [student_id : 1..2, historical_figure_id : {1}, notes : {None},
     completion_percentage : CompletionPercentageInputs]
      \cup
    [student_id : {1}, historical_figure_id : {1},
     notes : {Str("n", NotesMaxLength + 1)},
     completion_percentage : {NotSupplied}]

NextDiary ==
    \/ \E req \in DiaryUserRequests : SubmitUserCreate("c1", req)
    \/ InsertUser("c1")
    \/ \E req \in DiaryStudentRequests : CreateStudentProfile(1, req)
    \/ \E req \in HistoricalFigureRequests : CreateHistoricalFigure(req)
    \/ \E req \in TimelineEventRequests : CreateTimelineEvent(req)
    \/ \E req \in HeroDiaryProgressRequests : CreateHeroDiaryProgress(req)

SpecDiary == Init /\ [][NextDiary]_vars

----------------------------------------------------------------------------
(* Augmented reality *)

TriggerNameMaxLength == 100
TriggerDescriptionMaxLength == 500
ModelNameMaxLength == 100
ModelFilePathMaxLength == 500
ScaleFactorDefault == 1000
ScaleFactorMaxDigits == 5
ScaleFactorDecimalPlaces == 3
ExperienceNameMaxLength == 100
ExperienceDescriptionMaxLength == 500

\* ARSession.completion_status: Field(default="started")
CompletionStatusDefault == "started"

ArRows ==
    Len(ar_triggers) + Len(ar_models) + Len(ar_experiences) + Len(ar_sessions)

\* class ARTrigger
ARTriggerValid(req) ==
    /\ EnumOk(ARTriggerType, req.trigger_type)
    /\ MaxLengthOk(req.trigger_name, TriggerNameMaxLength)
    /\ MaxLengthOk(req.description, TriggerDescriptionMaxLength)

ARTriggerRow(req) ==
    [id |-> Len(ar_triggers) + 1,
     trigger_type |-> EnumParse(ARTriggerType, req.trigger_type).member,
     trigger_name |-> req.trigger_name, description |-> req.description,
     is_active |-> TRUE]

CreateARTrigger(req) ==
    /\ IF ~ARTriggerValid(req)
       THEN /\ ar_triggers' = ar_triggers
            /\ response' = ValidationError("ARTrigger")
       ELSE /\ ArRows < MaxArRows
            /\ ar_triggers' = Append(ar_triggers, ARTriggerRow(req))
            /\ response' = Created("ARTrigger")
    /\ UNCHANGED <<ar_models, ar_experiences, ar_sessions, notArVars>>

\* historical_figure_id: Optional[int] = Field(foreign_key="historical_figures.id")
OptionalFigureExists(fid) == fid = NoneId \/ FigureExists(fid)

\* class ARModel; scale_factor is a Decimal in thousandths,
\* Field(default=Decimal("1.0"), max_digits=5, decimal_places=3)
ARModelValid(req) ==
    /\ MaxLengthOk(req.model_name, ModelNameMaxLength)
    /\ MaxLengthOk(req.model_file_path, ModelFilePathMaxLength)
    /\ req.scale_factor.supplied
         => DecimalOk(req.scale_factor.value, ScaleFactorMaxDigits,
                      ScaleFactorDecimalPlaces)

ARModelRow(req) ==
    [id |-> Len(ar_models) + 1,
     historical_figure_id |-> req.historical_figure_id,
     model_name |-> req.model_name, model_file_path |-> req.model_file_path,
     texture_file_path |-> None, animation_file_path |-> None,
     scale_factor |-> WithDefault(req.scale_factor, ScaleFactorDefault)]

CreateARModel(req) ==
    /\ IF ~ARModelValid(req)
       THEN /\ ar_models' = ar_models
            /\ response' = ValidationError("ARModel")
       ELSE IF ~OptionalFigureExists(req.historical_figure_id)
       THEN /\ ar_models' = ar_models
            /\ response' = ForeignKeyViolation("ARModel")
       ELSE /\ ArRows < MaxArRows
            /\ ar_models' = Append(ar_models, ARModelRow(req))
            /\ response' = Created("ARModel")
    /\ UNCHANGED <<ar_triggers, ar_experiences, ar_sessions, notArVars>>

\* class ARExperience
ARExperienceValid(req) ==
    /\ MaxLengthOk(req.experience_name, ExperienceNameMaxLength)
    /\ MaxLengthOk(req.description, ExperienceDescriptionMaxLength)
    /\ EnumOk(StudentGrade, req.grade_level)

ARExperienceRow(req) ==
    [id |-> Len(ar_experiences) + 1,
     ar_trigger_id |-> req.ar_trigger_id, ar_model_id |-> req.ar_model_id,
     experience_name |-> req.experience_name, description |-> req.description,
     grade_level |-> EnumParse(StudentGrade, req.grade_level).member,
     is_active |-> TRUE]

CreateARExperience(req) ==
    /\ IF ~ARExperienceValid(req)
       THEN /\ ar_experiences' = ar_experiences
            /\ response' = ValidationError("ARExperience")
       ELSE IF ~(req.ar_trigger_id \in 1..Len(ar_triggers)
                   /\ req.ar_model_id \in 1..Len(ar_models))
       THEN /\ ar_experiences' = ar_experiences
            /\ response' = ForeignKeyViolation("ARExperience")
       ELSE /\ ArRows < MaxArRows
            /\ ar_experiences' = Append(ar_experiences, ARExperienceRow(req))
            /\ response' = Created("ARExperience")
    /\ UNCHANGED <<ar_triggers, ar_models, ar_sessions, notArVars>>

\* student_id: Optional[int] = Field(foreign_key="student_profiles.id")
OptionalStudentExists(sid) == sid = NoneId \/ StudentExists(sid)

\* class ARSession: completion_status is a str with a default and no other
\* constraint
ARSessionValid(req) ==
    req.completion_status.supplied
      => req.completion_status.value \in STRING

ARSessionRow(req) ==
    [id |-> Len(ar_sessions) + 1,
     student_id |-> req.student_id, ar_experience_id |-> req.ar_experience_id,
     interactions_count |-> 0,
     completion_status |-> WithDefault(req.completion_status, CompletionStatusDefault)]

CreateARSession(req) ==
    /\ IF ~ARSessionValid(req)
       THEN /\ ar_sessions' = ar_sessions
            /\ response' = ValidationError("ARSession")
       ELSE IF ~(OptionalStudentExists(req.student_id)
                   /\ req.ar_experience_id \in 1..Len(ar_experiences))
       THEN /\ ar_sessions' = ar_sessions
            /\ response' = ForeignKeyViolation("ARSession")
       ELSE /\ ArRows < MaxArRows
            /\ ar_sessions' = Append(ar_sessions, ARSessionRow(req))
            /\ response' = Created("ARSession")
    /\ UNCHANGED <<ar_triggers, ar_models, ar_experiences, notArVars>>

(* Inputs of the augmented-reality specification *)

ARTriggerRequests ==
    [trigger_type : {"banknote", "qr_code", "BANKNOTE", "coin"},
     trigger_name : {Str("g", 8)}, description : {Str("d", 30)}]
      \cup
    [trigger_type : {"stamp"}, trigger_name : {Str("g", TriggerNameMaxLength + 1)},
     description : {Str("d", 30)}]

\* scale factor 0.5 or the default
ARModelRequests ==
    [historical_figure_id : {NoneId, 1}, model_name : {Str("m", 6)},
     model_file_path : {Str("p", 40)},
     scale_factor : {NotSupplied, Supplied(500)}]
      \cup
    [historical_figure_id : {NoneId}, model_name : {Str("m", ModelNameMaxLength + 1)},
     model_file_path : {Str("p", 40)}, scale_factor : {NotSupplied}]

ARExperienceRequests ==
    [ar_trigger_id : 1..2, ar_model_id : {1}, experience_name : {Str("e", 10)},
     description : {Str("d", 30)}, grade_level : {"4", "four"}]

CompletionStatusInputs ==
    {NotSupplied} \cup
    {Supplied(v) : v \in {"started", "completed", "abandoned", "paused"}}

ARSessionRequests ==
    [student_id : {NoneId, 1}, ar_experience_id : 1..2,
     completion_status : CompletionStatusInputs]

NextAR ==
    \/ \E req \in ARTriggerRequests : CreateARTrigger(req)
    \/ \E req \in ARModelRequests : CreateARModel(req)
    \/ \E req \in ARExperienceRequests : CreateARExperience(req)
    \/ \E req \in ARSessionRequests : CreateARSession(req)

SpecAR == Init /\ [][NextAR]_vars

----------------------------------------------------------------------------
(* Learning modules *)

PlanTitleMaxLength == 200
PlanDescriptionMaxLength == 1000
SubjectMaxLength == 100
SheetTitleMaxLength == 200
InstructionsMaxLength == 2000
ActivityTypeMaxLength == 50
SheetFilePathMaxLength == 500

LessonRows == Len(lesson_plans) + Len(activity_sheets)

\* class LessonPlan
LessonPlanValid(req) ==
    /\ MaxLengthOk(req.title, PlanTitleMaxLength)
    /\ MaxLengthOk(req.description, PlanDescriptionMaxLength)
    /\ EnumOk(StudentGrade, req.grade_level)
    /\ MaxLengthOk(req.subject, SubjectMaxLength)
    /\ GreaterThanZero(req.duration_minutes)

\* foreign_key="teacher_profiles.id"
TeacherExists(tid) == tid \in 1..Len(teacher_profiles)

LessonPlanRow(req) ==
    [id |-> Len(lesson_plans) + 1, title |-> req.title,
     description |-> req.description,
     grade_level |-> EnumParse(StudentGrade, req.grade_level).member,
     subject |-> req.subject, duration_minutes |-> req.duration_minutes,
     created_by_id |-> req.created_by_id, is_validated |-> FALSE]

CreateLessonPlan(req) ==
    /\ IF ~LessonPlanValid(req)
       THEN /\ lesson_plans' = lesson_plans
            /\ response' = ValidationError("LessonPlan")
       ELSE IF ~TeacherExists(req.created_by_id)
       THEN /\ lesson_plans' = lesson_plans
            /\ response' = ForeignKeyViolation("LessonPlan")
       ELSE /\ LessonRows < MaxLessonRows
            /\ lesson_plans' = Append(lesson_plans, LessonPlanRow(req))
            /\ response' = Created("LessonPlan")
    /\ UNCHANGED <<activity_sheets, notLessonVars>>

\* class ActivitySheet
ActivitySheetValid(req) ==
    /\ MaxLengthOk(req.title, SheetTitleMaxLength)
    /\ MaxLengthOk(req.instructions, InstructionsMaxLength)
    /\ MaxLengthOk(req.activity_type, ActivityTypeMaxLength)
    /\ GreaterThanZero(req.estimated_time_minutes)
    /\ OptionalMaxLengthOk(req.file_path, SheetFilePathMaxLength)

\* foreign_key="lesson_plans.id"
LessonPlanExists(pid) == pid \in 1..Len(lesson_plans)

ActivitySheetRow(req) ==
    [id |-> Len(activity_sheets) + 1, lesson_plan_id |-> req.lesson_plan_id,
     title |-> req.title, instructions |-> req.instructions,
     activity_type |-> req.activity_type,
     estimated_time_minutes |-> req.estimated_time_minutes,
     file_path |-> req.file_path]

CreateActivitySheet(req) ==
    /\ IF ~ActivitySheetValid(req)
       THEN /\ activity_sheets' = activity_sheets
            /\ response' = ValidationError("ActivitySheet")
       ELSE IF ~LessonPlanExists(req.lesson_plan_id)
       THEN /\ activity_sheets' = activity_sheets
            /\ response' = ForeignKeyViolation("ActivitySheet")
       ELSE /\ LessonRows < MaxLessonRows
            /\ activity_sheets' = Append(activity_sheets, ActivitySheetRow(req))
            /\ response' = Created("ActivitySheet")
    /\ UNCHANGED <<lesson_plans, notLessonVars>>

----------------------------------------------------------------------------
(* The enum-typed attributes: one create operation per enumeration *)

TotalRows ==
    Len(users) + Len(student_profiles) + Len(teacher_profiles)
      + QuizRows + VocabRows + DiaryRows + ArRows + LessonRows

EnumUserRequests ==
    { [username |-> Str("a", 3), email |-> Str("x", 7),
       full_name |-> Str("n", 10), is_teacher |-> FALSE] }

EnumPeriodRequests == { [name |-> Str("k", 9), description |-> Str("d", 30)] }

EnumLevelRequests ==
    { [historical_period_id |-> 1, level_number |-> 1, title |-> Str("l", 7),
       description |-> Str("d", 30), completion_points_reward |-> 10] }

EnumQuestionRequests ==
    [quiz_level_id : {1}, question_text : {Str("q", 25)},
     question_type : {"multiple_choice", "short_answer", "essay", "TRUE_FALSE"},
     difficulty : {"easy", "medium", "Hard", "4"},
     points_value : {NotSupplied}, explanation : {Str("e", 15)},
     correct_answer : {Str("t", 4)}]

EnumBadgeRequests ==
    [name : {Str("g", 6)}, description : {Str("d", 30)},
     badge_type : {"streak", "scholar", "STREAK", "hard"},
     icon_url : {Str("i", 20)}]

EnumTermRequests ==
    { [historical_period_id |-> NoneId, term |-> Str("t", 4),
       definition |-> Str("d", 20), pronunciation |-> None,
       difficulty_level |-> "hard", grade_level |-> "5"] }

EnumVisualRequests ==
    [vocabulary_term_id : {1}, media_type : {"image", "model_3d", "MODEL_3D", "gif"},
     media_url : {Str("m", 30)}, caption : {None}, alt_text : {Str("a", 12)}]

NextEnum ==
    \/ \E req \in EnumUserRequests :
         SubmitUserCreate("c1", req) /\ TotalRows' <= MaxEnumRows
    \/ InsertUser("c1") /\ TotalRows' <= MaxEnumRows
    \/ \E req \in StudentRequests :
         CreateStudentProfile(1, req) /\ TotalRows' <= MaxEnumRows
    \/ \E req \in EnumPeriodRequests :
         CreateHistoricalPeriod(req) /\ TotalRows' <= MaxEnumRows
    \/ \E req \in EnumLevelRequests :
         CreateQuizLevel(req) /\ TotalRows' <= MaxEnumRows
    \/ \E req \in EnumQuestionRequests :
         CreateQuizQuestion(req) /\ TotalRows' <= MaxEnumRows
    \/ \E req \in EnumBadgeRequests :
         CreateBadge(req) /\ TotalRows' <= MaxEnumRows
    \/ \E req \in EnumTermRequests :
         CreateVocabularyTerm(req) /\ TotalRows' <= MaxEnumRows
    \/ \E req \in EnumVisualRequests :
         CreateVocabularyVisual(req) /\ TotalRows' <= MaxEnumRows
    \/ \E req \in ARTriggerRequests :
         CreateARTrigger(req) /\ TotalRows' <= MaxEnumRows

SpecEnum == Init /\ [][NextEnum]_vars

----------------------------------------------------------------------------
(* The strictly positive attributes: the create operations that declare gt=0 *)

PositiveTeacherRequests ==
    { [school_name |-> Str("s", 5), certification_number |-> None,
       specialization |-> None] }

LessonPlanRequests ==
    [title : {Str("p", 12)}, description : {Str("d", 30)}, grade_level : {"4"},
     subject : {Str("h", 7)}, duration_minutes : {-30, 0, 1, 45},
     created_by_id : 1..2]
      \cup
    [title : {Str("p", PlanTitleMaxLength + 1)}, description : {Str("d", 30)},
     grade_level : {"4"}, subject : {Str("h", 7)}, duration_minutes : {45},
     created_by_id : {1}]

ActivitySheetRequests ==
    [lesson_plan_id : 1..2, title : {Str("a", 9)}, instructions : {Str("i", 50)},
     activity_type : {Str("c", 13), Str("c", ActivityTypeMaxLength + 1)},
     estimated_time_minutes : {-1, 0, 1, 20}, file_path : {None}]

PositiveQuestionRequests ==
    [quiz_level_id : {1}, question_text : {Str("q", 25)},
     question_type : {"true_false"}, difficulty : {"easy"},
     points_value : {NotSupplied, Supplied(-10), Supplied(0), Supplied(1)},
     explanation : {Str("e", 15)}, correct_answer : {Str("t", 4)}]

PositiveAttemptRequests ==
    [student_id : {1}, quiz_level_id : {1}, attempt_number : {-1, 0, 1, 2},
     total_points_earned : {NotSupplied}]

NextPositive ==
    \/ \E req \in EnumUserRequests :
         SubmitUserCreate("c1", req) /\ TotalRows' <= MaxPositiveRows
    \/ InsertUser("c1") /\ TotalRows' <= MaxPositiveRows
    \/ \E req \in QuizStudentRequests :
         CreateStudentProfile(1, req) /\ TotalRows' <= MaxPositiveRows
    \/ \E req \in PositiveTeacherRequests :
         CreateTeacherProfile(1, req) /\ TotalRows' <= MaxPositiveRows
    \/ \E req \in LessonPlanRequests :
         CreateLessonPlan(req) /\ TotalRows' <= MaxPositiveRows
    \/ \E req \in ActivitySheetRequests :
         CreateActivitySheet(req) /\ TotalRows' <= MaxPositiveRows
    \/ \E req \in EnumPeriodRequests :
         CreateHistoricalPeriod(req) /\ TotalRows' <= MaxPositiveRows
    \/ \E req \in QuizLevelRequests :
         CreateQuizLevel(req) /\ TotalRows' <= MaxPositiveRows
    \/ \E req \in PositiveQuestionRequests :
         CreateQuizQuestion(req) /\ TotalRows' <= MaxPositiveRows
    \/ \E req \in PositiveAttemptRequests :
         CreateQuizAttempt(req) /\ TotalRows' <= MaxPositiveRows

SpecPositive == Init /\ [][NextPositive]_vars

----------------------------------------------------------------------------
(* The enumerations' string values on the wire and in storage *)

\* The enumerations of the module, by class name
Enums ==
    [StudentGrade |-> StudentGrade, QuestionDifficulty |-> QuestionDifficulty,
     QuestionType |-> QuestionType, BadgeType |-> BadgeType,
     MediaType |-> MediaType, ARTriggerType |-> ARTriggerType]

\* Mutant: the member is written by its name instead of its value
EnumValueIsName(enum, m) == IF m \in DOMAIN enum THEN m ELSE ""

\* member.value: the string a member of a (str, Enum) class is written as
EnumValue(enum, m) == enum[m]

\* The strings a reader may be handed: every value and every member name of
\* every enumeration, and two strings that are neither
WireStrings ==
    UNION {EnumValues(Enums[e]) : e \in DOMAIN Enums}
      \cup UNION {DOMAIN Enums[e] : e \in DOMAIN Enums}
      \cup {"", "7"}

\* A member of enumeration e is written to its string value
Dump(e, m) ==
    /\ codec' = [pc |-> "dumped", enum |-> e, source |-> [member |-> m],
                 wire |-> EnumValue(Enums[e], m), decoded |-> None]
    /\ UNCHANGED <<tables, response>>

\* A string arrives for an attribute of enumeration e
Receive(e, v) ==
    /\ codec' = [pc |-> "dumped", enum |-> e, source |-> None,
                 wire |-> v, decoded |-> None]
    /\ UNCHANGED <<tables, response>>

\* The string is parsed as a member of the enumeration
Parse ==
    /\ codec.pc = "dumped"
    /\ codec' = [codec EXCEPT !.pc = "parsed",
                              !.decoded = EnumParse(Enums[codec.enum], codec.wire)]
    /\ UNCHANGED <<tables, response>>

NextCodec ==
    \/ \E e \in DOMAIN Enums : \E m \in DOMAIN Enums[e] : Dump(e, m)
    \/ \E e \in DOMAIN Enums : \E v \in WireStrings : Receive(e, v)
    \/ Parse

SpecCodec == Init /\ [][NextCodec]_vars

----------------------------------------------------------------------------
(* Claims about users and profiles, under SpecUsers *)

\* C4: each User is referenced by at most one StudentProfile and at most one
\* TeacherProfile; inserting a second profile of the same kind for the same
\* user_id is rejected and leaves the stored profiles unchanged.
C4_AtMostOneProfilePerKind ==
    /\ [](\A uid \in UserIds :
            /\ Cardinality(UserStudentProfiles(uid)) <= 1
            /\ Cardinality(UserTeacherProfiles(uid)) <= 1)
    /\ [][\A uid \in UserIds :
            /\ \A req \in StudentRequests :
                 (CreateStudentProfile(uid, req) /\ UserStudentProfiles(uid) # {})
                 => (response'.status = "rejected"
                     /\ UNCHANGED <<student_profiles, teacher_profiles, notUserVars>>)
            /\ \A req \in TeacherRequests :
                 (CreateTeacherProfile(uid, req) /\ UserTeacherProfiles(uid) # {})
                 => (response'.status = "rejected"
                     /\ UNCHANGED <<student_profiles, teacher_profiles, notUserVars>>)]_vars

\* C4 witness: a second student profile for a user that has one was refused
C4_Witness ==
    /\ response = UniqueViolation("StudentProfile")
    /\ \E uid \in UserIds : Cardinality(UserStudentProfiles(uid)) = 1
    /\ \E uid \in UserIds : Cardinality(UserTeacherProfiles(uid)) = 1

\* C5: a valid profile for an existing user that has no profile of that kind
\* is inserted, whatever the user's other profile and is_teacher flag are.
C5_ProfilesMayCoexist ==
    [][\A uid \in UserIds :
         /\ \A req \in StudentRequests :
              (CreateStudentProfile(uid, req) /\ StudentValid(req)
                 /\ uid \in 1..Len(users) /\ UserStudentProfiles(uid) = {})
              => (response' = Created("StudentProfile")
                  /\ UserStudentProfiles(uid)' # {})
         /\ \A req \in TeacherRequests :
              (CreateTeacherProfile(uid, req) /\ TeacherValid(req)
                 /\ uid \in 1..Len(users) /\ UserTeacherProfiles(uid) = {})
              => (response' = Created("TeacherProfile")
                  /\ UserTeacherProfiles(uid)' # {})]_vars

\* C5 witness: a user with is_teacher false and a user with is_teacher true
\* each hold a student profile and a teacher profile
C5_Witness ==
    \E u, v \in 1..Len(users) :
        /\ users[u].is_teacher /\ ~users[v].is_teacher
        /\ UserStudentProfiles(u) # {} /\ UserTeacherProfiles(u) # {}
        /\ UserStudentProfiles(v) # {} /\ UserTeacherProfiles(v) # {}

\* C6: every StudentProfile.user_id is the id of an existing User, and that
\* User's student_profile is this StudentProfile.
C6_StudentProfileResolvesToUser ==
    \A i \in 1..Len(student_profiles) :
        /\ Cardinality(ProfileUsers(student_profiles[i])) = 1
        /\ \A u \in ProfileUsers(student_profiles[i]) :
             /\ users[u].id = student_profiles[i].user_id
             /\ UserStudentProfiles(users[u].id) = {i}

\* C6 witness: the scenario User(is_teacher=false) then
\* StudentProfile(grade="4", school_name of 5 characters) for that user
C6_Witness ==
    \E i \in 1..Len(student_profiles) :
        /\ student_profiles[i].grade = "GRADE_4"
        /\ student_profiles[i].school_name = Str("s", 5)
        /\ \E u \in ProfileUsers(student_profiles[i]) :
             /\ users[u].username = Str("a", 3)
             /\ users[u].email = Str("x", 7)
             /\ ~users[u].is_teacher

\* C7: no two stored Users share a username or an email; an insertion that
\* would duplicate either is rejected and leaves the stored Users unchanged.
C7_UsernameEmailUnique ==
    /\ [](\A i, j \in 1..Len(users) :
            i # j => /\ users[i].username # users[j].username
                     /\ users[i].email # users[j].email)
    /\ [][\A c \in Clients :
            (InsertUser(c)
               /\ \E i \in 1..Len(users) :
                    \/ users[i].username = pending[c].username
                    \/ users[i].email = pending[c].email)
            => (response'.status = "rejected" /\ users' = users)]_vars

\* C7 witness: two clients' requests were in flight together, one insertion
\* was refused as a duplicate, and two users are stored
C7_Witness ==
    /\ response = UniqueViolation("User")
    /\ Len(users) = 2
    /\ \E c \in Clients : pending[c] # None

----------------------------------------------------------------------------
(* Claims about the vocabulary tables, under SpecVocab *)

----------------------------------------------------------------------------
(* Claims about the Hero's Diary tables, under SpecDiary *)

----------------------------------------------------------------------------
(* Claims about the augmented-reality tables, under SpecAR *)

\* C9: every ARSession's completion_status is one of "started", "completed",
\* "abandoned"; a session created without an explicit status has status
\* "started".
C9_CompletionStatusInSet ==
    \A i \in 1..Len(ar_sessions) :
        ar_sessions[i].completion_status \in {"started", "completed", "abandoned"}

----------------------------------------------------------------------------
(* Claims about the enum-typed attributes, under SpecEnum *)

StudentGradeLiterals == {"4", "5", "6"}
QuestionDifficultyLiterals == {"easy", "medium", "hard"}
QuestionTypeLiterals == {"multiple_choice", "true_false", "short_answer"}
BadgeTypeLiterals ==
    {"level_completion", "streak", "perfect_score", "explorer", "scholar"}
MediaTypeLiterals == {"image", "audio", "video", "document", "model_3d"}
ARTriggerTypeLiterals == {"banknote", "stamp", "textbook_image", "qr_code"}

----------------------------------------------------------------------------
(* Claims about maximum lengths, under SpecQuiz *)

\* C8: a create request whose string attribute exceeds its maximum length
\* (User.username over 50, User.email over 255, StudentAnswer.student_answer
\* over 1000) is rejected before persistence: no record is stored and the
\* stored state is unchanged.
C8_OverlongStringsRejected ==
    /\ [](/\ \A i \in 1..Len(users) :
               users[i].username.len <= 50 /\ users[i].email.len <= 255
          /\ \A i \in 1..Len(student_answers) :
               student_answers[i].student_answer.len <= 1000)
    /\ [][/\ \A req \in QuizUserRequests :
               (SubmitUserCreate("c1", req)
                  /\ (req.username.len > 50 \/ req.email.len > 255))
               => (response' = ValidationError("UserCreate")
                   /\ UNCHANGED <<userVars, quizVars>>)
          /\ \A req \in StudentAnswerRequests :
               (CreateStudentAnswer(req) /\ req.student_answer.len > 1000)
               => (response' = ValidationError("StudentAnswer")
                   /\ UNCHANGED <<userVars, quizVars>>)]_vars

\* C8 witness: an answer of exactly 1000 characters is stored and a longer
\* one was refused
C8_Witness ==
    /\ response = ValidationError("StudentAnswer")
    /\ Len(users) = 1
    /\ \E i \in 1..Len(student_answers) :
         student_answers[i].student_answer.len = 1000

----------------------------------------------------------------------------
(* Claims about the enumerations' string values, under SpecCodec *)

\* C11: for every member of every enumeration, writing the member as its
\* string value and parsing that string yields the same member, and distinct
\* members of one enumeration have distinct string values (a parsed string
\* is the value of exactly one member, the one parsed).
C11_EnumRoundTrip ==
    codec.pc = "parsed" =>
      /\ codec.source # None => codec.decoded = codec.source
      /\ codec.decoded # None =>
           {m \in DOMAIN Enums[codec.enum] : Enums[codec.enum][m] = codec.wire}
             = {codec.decoded.member}

\* C11 witness: MediaType.MODEL_3D was written as "model_3d" and parsed back
C11_Witness ==
    /\ codec.pc = "parsed"
    /\ codec.enum = "MediaType"
    /\ codec.source = [member |-> "MODEL_3D"]
    /\ codec.wire = "model_3d"
    /\ codec.decoded = [member |-> "MODEL_3D"]

----------------------------------------------------------------------------
(* Claims about quiz attempts and answers, under SpecQuiz *)

\* C12: the schema does not tie QuizAttempt.total_points_earned to the
\* attempt's answers: an attempt created without a total stores the default
\* 0, creating a StudentAnswer leaves every attempt as it is, and a valid
\* answer for an existing attempt and question is stored whatever the totals
\* are.
C12_TotalPointsNotAggregated ==
    [][/\ \A req \in QuizAttemptRequests :
            (CreateQuizAttempt(req) /\ response' = Created("QuizAttempt")
               /\ ~req.total_points_earned.supplied)
            => quiz_attempts'[Len(quiz_attempts')].total_points_earned = 0
       /\ \A req \in StudentAnswerRequests :
            CreateStudentAnswer(req) =>
              /\ quiz_attempts' = quiz_attempts
              /\ (req.student_answer.len <= 1000
                    /\ req.quiz_attempt_id \in 1..Len(quiz_attempts)
                    /\ req.question_id \in 1..Len(quiz_questions))
                   => (response' = Created("StudentAnswer")
                       /\ Len(student_answers') = Len(student_answers) + 1)]_vars

\* C12 witness: the scenario's answer (is_correct, points_earned = 10) is
\* stored for an attempt whose total_points_earned is still the default 0
C12_Witness ==
    /\ response = Created("StudentAnswer")
    /\ \E a \in 1..Len(quiz_attempts) :
         /\ quiz_attempts[a].total_points_earned = 0
         /\ SumPointsEarned(AttemptAnswers(a)) = 10
         /\ \E i \in AttemptAnswers(a) :
              student_answers[i].is_correct /\ student_answers[i].points_earned = 10
         /\ quiz_levels[quiz_attempts[a].quiz_level_id].completion_points_reward = 10

----------------------------------------------------------------------------
(* Claims about the strictly positive attributes, under SpecPositive *)

====
